---- MODULE Spec2Model ----
(***************************************************************************)
(* Weather backend: the FastAPI application of main.py (POST /weather,     *)
(* GET /forecast7, GET /hourly) and the helper library api/weather_api.py  *)
(* (get_location with the static table, the three-level predict_rain).     *)
(*                                                                         *)
(* One request (or one library call) is in progress at a time; handlers    *)
(* are synchronous, so a network call is a step that issues the call and a *)
(* step that receives its outcome, which the environment chooses.          *)
(*                                                                         *)
(* Units: provider temperatures in hundredths of a degree, rounded output  *)
(* temperatures in tenths, precipitation in hundredths of a millimetre,    *)
(* humidity / cloud cover in percent, wind in tenths, coordinates in 1e-4  *)
(* degree, instants in half hours (an on-the-hour stamp is even).          *)
(***************************************************************************)
EXTENDS Integers, Sequences, FiniteSets, TLC

VARIABLES
    model_loaded,   \* main.py `model is not None`, fixed at import time
    entry,          \* operation in progress: an endpoint or a library call
    place,          \* the place argument as received
    hours,          \* the `hours` parameter of hourly_forecast, default applied
    hours_given,    \* whether the query string of GET /hourly carried `hours`
    rain_args,      \* <<precipitation, humidity, cloud_cover>> of a predict_rain call
    pc,             \* "idle", "geocode" (call in flight), "provider" (call in flight), "done"
    net,            \* log of network events of the current operation
    geo_resp,       \* what the geocoding service answered
    wx_resp,        \* what the weather provider answered
    now,            \* datetime.now() as read by the operation
    lat_lon,        \* the pair returned by get_location
    status,         \* HTTP status of the response (0: none; library calls keep 0)
    raised,         \* exception that escaped a library call ("" when none)
    body            \* response body / return value

vars == << model_loaded, entry, place, hours, hours_given, rain_args, pc, net, geo_resp,
           wx_resp, now, lat_lon, status, raised, body >>

----------------------------------------------------------------------------
(* Bounds of the model *)

MaxPad == 1          \* leading / trailing blanks on a place string
MaxLen == 3          \* entries of an hourly series in a provider response
MaxHours == 2        \* explicit `hours` values 0..MaxHours, next to the default
MaxNow == 5          \* clock readings 0..MaxNow (half hours)
MaxDays == 1         \* entries of a daily series in a provider response

----------------------------------------------------------------------------
(* Strings: a place is its core text with counted blanks around it *)

Str(lead, core, trail) == [lead |-> lead, core |-> core, trail |-> trail]

\* str.strip()
strip(s) == IF s.core = "" THEN Str(0, "", 0) ELSE Str(0, s.core, 0)

\* truthiness of a str: `not place` is TRUE exactly for the empty string
IsEmptyStr(s) == s.core = "" /\ s.lead = 0 /\ s.trail = 0

Cores == {"", "Kollam", "kollam", "Atlantis"}

\* blanks on both sides or on neither
Places == { Str(k, c, k) : k \in {0, MaxPad}, c \in Cores }

----------------------------------------------------------------------------
(* Coordinates and None *)

NoneVal == [none |-> TRUE, latitude |-> 0, longitude |-> 0]

Coord(la, lo) == [none |-> FALSE, latitude |-> la, longitude |-> lo]

KERALA_NAMES ==
    {"Thiruvananthapuram", "Kollam", "Pathanamthitta", "Alappuzha", "Kottayam",
     "Idukki", "Ernakulam", "Thrissur", "Palakkad", "Malappuram", "Kozhikode",
     "Wayanad", "Kannur", "Kasaragod"}

KERALA_COORDS ==
    [n \in KERALA_NAMES |->
        CASE n = "Thiruvananthapuram" -> Coord(85241, 769366)
          [] n = "Kollam"             -> Coord(88932, 766141)
          [] n = "Pathanamthitta"     -> Coord(92648, 767870)
          [] n = "Alappuzha"          -> Coord(94981, 763388)
          [] n = "Kottayam"           -> Coord(95916, 765222)
          [] n = "Idukki"             -> Coord(98492, 769770)
          [] n = "Ernakulam"          -> Coord(99816, 762999)
          [] n = "Thrissur"           -> Coord(105276, 762144)
          [] n = "Palakkad"           -> Coord(107867, 766548)
          [] n = "Malappuram"         -> Coord(110732, 760740)
          [] n = "Kozhikode"          -> Coord(112588, 757804)
          [] n = "Wayanad"            -> Coord(116854, 761320)
          [] n = "Kannur"             -> Coord(118745, 753704)
          [] OTHER                    -> Coord(124996, 749869)]

\* `place in KERALA_COORDS`: exact, case-sensitive key match
InTable(s) == s.lead = 0 /\ s.trail = 0 /\ s.core \in KERALA_NAMES

----------------------------------------------------------------------------
(* The geocoding service as seen through requests.get *)

\* what the public service has on record for a name (differs from the table)
ServiceCoord == Coord(88900, 765900)

GeoBodies ==
    { [json |-> FALSE, has_results |-> FALSE, results |-> << >>],
      [json |-> TRUE,  has_results |-> FALSE, results |-> << >>],
      [json |-> TRUE,  has_results |-> TRUE,  results |-> << >>],
      [json |-> TRUE,  has_results |-> TRUE,
       results |-> << [has_lat |-> TRUE, loc |-> ServiceCoord] >>],
      [json |-> TRUE,  has_results |-> TRUE,
       results |-> << [has_lat |-> FALSE, loc |-> ServiceCoord] >>] }

NoBody == [json |-> FALSE, has_results |-> FALSE, results |-> << >>]

GeoResponses ==
    { [net |-> n, http |-> 0, data |-> NoBody] : n \in {"connection_error", "timeout"} }
    \cup { [net |-> "ok", http |-> h, data |-> b] : h \in {200, 500}, b \in GeoBodies }

NoResp == [net |-> "none", http |-> 0, data |-> NoBody]

\* outcome of a function: the value returned, or the exception that escapes
Return(v) == [exc |-> "", value |-> v]
Raise(e) == [exc |-> e, value |-> NoneVal]

\* main.py get_location, from the response on: every exception becomes (None, None)
get_location(resp) ==
    IF resp.net # "ok" THEN Return(NoneVal)
    ELSE IF resp.http >= 400 THEN Return(NoneVal)
    ELSE IF ~resp.data.json THEN Return(NoneVal)
    ELSE IF ~resp.data.has_results \/ resp.data.results = << >> THEN Return(NoneVal)
    ELSE IF ~resp.data.results[1].has_lat THEN Return(NoneVal)
    ELSE Return(resp.data.results[1].loc)

\* api/weather_api.py get_location, from the response on: nothing is caught,
\* the status is not looked at, results[0] is taken whenever the key is there
api_get_location(resp) ==
    IF resp.net # "ok" THEN Raise(resp.net)
    ELSE IF ~resp.data.json THEN Raise("JSONDecodeError")
    ELSE IF ~resp.data.has_results THEN Return(NoneVal)
    ELSE IF resp.data.results = << >> THEN Raise("IndexError")
    ELSE IF ~resp.data.results[1].has_lat THEN Raise("KeyError")
    ELSE Return(resp.data.results[1].loc)

----------------------------------------------------------------------------
(* Rain heuristics *)

\* predict_rain with the thresholds counted as exceeded when merely reached
predict_rain_inclusive(precipitation, humidity, cloud_cover) ==
    IF precipitation >= 100 \/ (humidity >= 80 /\ cloud_cover >= 70)
    THEN "High chance of rain"
    ELSE "Low chance of rain"

\* main.py predict_rain; `precipitation > 1` is > 100 hundredths
predict_rain(precipitation, humidity, cloud_cover) ==
    IF precipitation > 100 \/ (humidity > 80 /\ cloud_cover > 70)
    THEN "High chance of rain"
    ELSE "Low chance of rain"

\* the three-level heuristic with its two tests in the other order
api_predict_rain_swapped(precipitation, humidity, cloud_cover) ==
    IF humidity > 75 /\ cloud_cover > 60 THEN "Possible rain"
    ELSE IF precipitation > 10 THEN "Rain likely"
    ELSE "Low rain chance"

\* api/weather_api.py predict_rain; `precipitation > 0.1` is > 10 hundredths
api_predict_rain(precipitation, humidity, cloud_cover) ==
    IF precipitation > 10 THEN "Rain likely"
    ELSE IF humidity > 75 /\ cloud_cover > 60 THEN "Possible rain"
    ELSE "Low rain chance"

\* arguments tried on the heuristics: around each threshold, and far from it
PrecipVals == {0, 10, 11, 100, 101, 200}
HumidityVals == {0, 50, 75, 76, 80, 81, 85}
CloudVals == {0, 50, 60, 61, 70, 71, 75}

----------------------------------------------------------------------------
(* Conversions *)

\* round(x, 1) of a value in hundredths, result in tenths (ties to even)
round1(x) ==
    LET q == x \div 10
        r == x % 10
    IN  IF r < 5 THEN q
        ELSE IF r > 5 THEN q + 1
        ELSE IF q % 2 = 0 THEN q ELSE q + 1

\* datetime.strftime("%H:%M") of an instant in half hours
strftime_HM(t) == << (t \div 2) % 24, (t % 2) * 30 >>

\* date() of an instant, as a day number
date_of(t) == t \div 48

Min(a, b) == IF a < b THEN a ELSE b

----------------------------------------------------------------------------
(* The weather provider as seen through requests.get *)

T0 == 2 * 22                 \* 22:00 of day 0, the earliest stamp of the model
Instants == { T0 + d : d \in 0..MaxNow }

Num(v) == [null |-> FALSE, v |-> v]
Null == [null |-> TRUE, v |-> 0]

HourlyTemps == { Num(2904), Num(3016), Null }

\* one stamp per hour, ascending, from `start`
HourlyTimes(start, n) == [i \in 1..n |-> start + 2 * (i - 1)]

NoData == [json |-> FALSE, has_keys |-> FALSE]

HourlyData ==
    { [json |-> j, has_keys |-> FALSE, time |-> << >>, temperature_2m |-> << >>]
        : j \in BOOLEAN }
    \cup
    UNION { UNION { { [json |-> TRUE, has_keys |-> TRUE,
                       time |-> HourlyTimes(s, n), temperature_2m |-> ts]
                      : ts \in [1..m -> HourlyTemps] }
                    : m \in {n} \cup ({n - 1} \cap Nat) }
            : <<s, n>> \in {T0, T0 + 2} \X (0..MaxLen) }

Responses(Data) ==
    { [net |-> n, http |-> 0, data |-> NoData] : n \in {"connection_error", "timeout"} }
    \cup { [net |-> "ok", http |-> 500, data |-> NoData] }
    \cup { [net |-> "ok", http |-> 200, data |-> d] : d \in Data }

\* requests.get(...); raise_for_status(); r.json(): TRUE when this part raises
FetchFails(resp) == resp.net # "ok" \/ resp.http >= 400 \/ ~resp.data.json

----------------------------------------------------------------------------
(* get_hourly_weather *)

HOURLY_FALLBACK ==
    << [time |-> <<10, 0>>, temperature |-> 290],
       [time |-> <<11, 0>>, temperature |-> 300],
       [time |-> <<12, 0>>, temperature |-> 310],
       [time |-> <<13, 0>>, temperature |-> 320],
       [time |-> <<14, 0>>, temperature |-> 310] >>

HourlyPoint(t, temp) == [time |-> strftime_HM(t), temperature |-> round1(temp.v)]

\* the loop with `time_obj > now` for `time_obj >= now`
RECURSIVE hourly_loop_strict(_, _, _, _, _, _)
hourly_loop_strict(times, temps, clock, n, i, acc) ==
    IF i > Min(Len(times), Len(temps)) THEN Return(acc)
    ELSE IF times[i] > clock /\ temps[i].null THEN Raise("TypeError")
    ELSE LET acc2 == IF times[i] > clock
                     THEN Append(acc, HourlyPoint(times[i], temps[i]))
                     ELSE acc
         IN  IF Len(acc2) = n THEN Return(acc2)
             ELSE hourly_loop_strict(times, temps, clock, n, i + 1, acc2)

\* the loop without its `if len(hourly) == hours: break`
RECURSIVE hourly_loop_nobreak(_, _, _, _, _, _)
hourly_loop_nobreak(times, temps, clock, n, i, acc) ==
    IF i > Min(Len(times), Len(temps)) THEN Return(acc)
    ELSE IF times[i] >= clock /\ temps[i].null THEN Raise("TypeError")
    ELSE hourly_loop_nobreak(times, temps, clock, n, i + 1,
             IF times[i] >= clock
             THEN Append(acc, HourlyPoint(times[i], temps[i]))
             ELSE acc)

\* the for loop over zip(times, temps), from position i with `hourly` = acc
RECURSIVE hourly_loop(_, _, _, _, _, _)
hourly_loop(times, temps, clock, n, i, acc) ==
    IF i > Min(Len(times), Len(temps)) THEN Return(acc)
    ELSE IF times[i] >= clock /\ temps[i].null THEN Raise("TypeError")
    ELSE LET acc2 == IF times[i] >= clock
                     THEN Append(acc, HourlyPoint(times[i], temps[i]))
                     ELSE acc
         IN  IF Len(acc2) = n THEN Return(acc2)
             ELSE hourly_loop(times, temps, clock, n, i + 1, acc2)

\* get_hourly_weather answering a failure with nothing instead of the fallback
get_hourly_weather_nofallback(resp, clock, n) ==
    IF FetchFails(resp) \/ ~resp.data.has_keys THEN << >>
    ELSE LET r == hourly_loop(resp.data.time, resp.data.temperature_2m,
                              clock, n, 1, << >>)
         IN  IF r.exc # "" THEN << >> ELSE r.value

get_hourly_weather(resp, clock, n) ==
    IF FetchFails(resp) \/ ~resp.data.has_keys THEN HOURLY_FALLBACK
    ELSE LET r == hourly_loop(resp.data.time, resp.data.temperature_2m,
                              clock, n, 1, << >>)
         IN  IF r.exc # "" THEN HOURLY_FALLBACK ELSE r.value

----------------------------------------------------------------------------
(* get_live_weather (main.py) *)

LiveData ==
    { [json |-> j, has_keys |-> FALSE, has_temperature |-> FALSE, filled |-> FALSE,
       temperature |-> 0, windspeed |-> 0, humidity |-> 0, precipitation |-> 0,
       cloudcover |-> 0] : j \in BOOLEAN }
    \cup
    { [json |-> TRUE, has_keys |-> TRUE, has_temperature |-> ht, filled |-> f,
       temperature |-> 2815, windspeed |-> 123, humidity |-> h, precipitation |-> p,
       cloudcover |-> 75]
        : ht \in BOOLEAN, f \in BOOLEAN, h \in {60, 85}, p \in {0, 250} }

LIVE_FALLBACK ==
    [temperature |-> 3000, wind_speed |-> 100, humidity |-> 70,
     precipitation |-> 0, cloud_cover |-> 40]

\* has_keys: both "current_weather" and "hourly" are in the body;
\* filled: the hourly lists exist and have a first element
get_live_weather(resp) ==
    IF FetchFails(resp) \/ ~resp.data.has_keys \/ ~resp.data.filled
    THEN LIVE_FALLBACK
    ELSE [temperature |-> IF resp.data.has_temperature
                          THEN resp.data.temperature ELSE 3000,
          wind_speed |-> resp.data.windspeed,
          humidity |-> resp.data.humidity,
          precipitation |-> resp.data.precipitation,
          cloud_cover |-> resp.data.cloudcover]

\* model.predict(model_input)[0]: an opaque value, or an exception
Predictions == { [ok |-> TRUE, v |-> 2873], [ok |-> FALSE, v |-> 0] }

----------------------------------------------------------------------------
(* get_weather_data (main.py), from the provider's response on *)

FALLBACK_DAYS == 7

DailyData ==
    { [json |-> j, has_keys |-> FALSE, time |-> << >>,
       temperature_2m_max |-> << >>, temperature_2m_min |-> << >>] : j \in BOOLEAN }
    \cup
    UNION { { [json |-> TRUE, has_keys |-> TRUE,
               time |-> [i \in 1..n |-> date_of(T0) + i - 1],
               temperature_2m_max |-> hi,
               temperature_2m_min |-> [i \in 1..n |-> Num(2435)]]
              : hi \in [1..n -> {Num(3125), Null}] }
            : n \in 0..MaxDays }

get_weather_data(resp, clock) ==
    IF FetchFails(resp) \/ ~resp.data.has_keys
    THEN [dates |-> [i \in 1..FALLBACK_DAYS |-> date_of(clock) + i - 1],
          temp_max |-> [i \in 1..FALLBACK_DAYS |-> Num(3000)],
          temp_min |-> [i \in 1..FALLBACK_DAYS |-> Num(2400)]]
    ELSE [dates |-> resp.data.time,
          temp_max |-> resp.data.temperature_2m_max,
          temp_min |-> resp.data.temperature_2m_min]

\* the loop of forecast_7 over zip(dates, temp_max, temp_min)
forecast_7(data) ==
    LET n == Min(Len(data.dates), Min(Len(data.temp_max), Len(data.temp_min)))
    IN  IF \E i \in 1..n : data.temp_max[i].null \/ data.temp_min[i].null
        THEN Raise("TypeError")
        ELSE Return([i \in 1..n |-> [date |-> data.dates[i],
                                     tmax |-> round1(data.temp_max[i].v),
                                     tmin |-> round1(data.temp_min[i].v)]])

----------------------------------------------------------------------------
(* Requests and calls *)

DEFAULT_HOURS == 12

HoursVals == (0..MaxHours) \cup {DEFAULT_HOURS}

\* the `hours` part of a query string: a value, or absent
HourQueries ==
    { [given |-> TRUE, value |-> h] : h \in HoursVals }
    \cup { [given |-> FALSE, value |-> 0] }

NoHours == [given |-> FALSE, value |-> 0]

\* `hours: int = 12`
hours_param(q) == IF q.given THEN q.value ELSE DEFAULT_HOURS

NoBodyYet == [kind |-> "none"]

Error(detail) == [kind |-> "error", detail |-> detail]

\* the check left out
LocationMissing_never(pair) == FALSE

\* `if lat is None`
LocationMissing(pair) == pair.none

\* the worker is free to take the next request or call
Ready == pc = "idle"

\* the per-operation state a new operation starts from
Begin(e, p, q, a) ==
    /\ entry' = e
    /\ place' = p
    /\ hours' = hours_param(q)
    /\ hours_given' = q.given
    /\ rain_args' = a
    /\ geo_resp' = NoResp
    /\ wx_resp' = NoResp
    /\ now' = 0
    /\ lat_lon' = NoneVal
    /\ raised' = ""
    /\ UNCHANGED model_loaded

Respond(code, b) ==
    /\ status' = code
    /\ body' = b
    /\ pc' = "done"

CallGeocoder ==
    /\ pc' = "geocode"
    /\ net' = << "geocode_call" >>
    /\ status' = 0
    /\ body' = NoBodyYet

Init ==
    /\ model_loaded \in BOOLEAN
    /\ entry = "none"
    /\ place = Str(0, "", 0)
    /\ hours = DEFAULT_HOURS
    /\ hours_given = FALSE
    /\ rain_args = << 0, 0, 0 >>
    /\ pc = "idle"
    /\ net = << >>
    /\ geo_resp = NoResp
    /\ wx_resp = NoResp
    /\ now = 0
    /\ lat_lon = NoneVal
    /\ status = 0
    /\ raised = ""
    /\ body = NoBodyYet

\* POST /weather, up to the geocoding call
PostWeather(p) ==
    /\ Ready
    /\ Begin("POST /weather", p, NoHours, << 0, 0, 0 >>)
    /\ IF ~model_loaded
       THEN net' = << >> /\ Respond(500, Error("Model not loaded"))
       ELSE IF IsEmptyStr(strip(p))
       THEN net' = << >> /\ Respond(400, Error("Place is required"))
       ELSE CallGeocoder

\* GET /forecast7, up to the geocoding call of get_weather_data
GetForecast7(p) ==
    /\ Ready
    /\ Begin("GET /forecast7", p, NoHours, << 0, 0, 0 >>)
    /\ CallGeocoder

\* GET /hourly, up to the geocoding call
GetHourly(p, q) ==
    /\ Ready
    /\ Begin("GET /hourly", p, q, << 0, 0, 0 >>)
    /\ CallGeocoder

\* api/weather_api.py get_location, up to the geocoding call
CallApiGetLocation(p) ==
    /\ Ready
    /\ Begin("api.get_location", p, NoHours, << 0, 0, 0 >>)
    /\ IF InTable(p)
       THEN /\ net' = << >>
            /\ Respond(0, [kind |-> "pair", value |-> KERALA_COORDS[p.core]])
       ELSE CallGeocoder

\* main.py predict_rain
CallPredictRain(p, h, c) ==
    /\ Ready
    /\ Begin("main.predict_rain", Str(0, "", 0), NoHours, << p, h, c >>)
    /\ net' = << >>
    /\ Respond(0, [kind |-> "label", value |-> predict_rain(p, h, c)])

\* api/weather_api.py predict_rain
CallApiPredictRain(p, h, c) ==
    /\ Ready
    /\ Begin("api.predict_rain", Str(0, "", 0), NoHours, << p, h, c >>)
    /\ net' = << >>
    /\ Respond(0, [kind |-> "label", value |-> api_predict_rain(p, h, c)])

\* the geocoding service answers; the caller goes on to its provider call or ends
GeocodeReturn(resp) ==
    /\ pc = "geocode"
    /\ geo_resp' = resp
    /\ UNCHANGED << model_loaded, entry, place, hours, hours_given, rain_args,
                    wx_resp, now >>
    /\ IF entry = "api.get_location"
       THEN LET r == api_get_location(resp)
            IN  /\ raised' = r.exc
                /\ lat_lon' = r.value
                /\ net' = Append(net, "geocode_return")
                /\ Respond(0, [kind |-> "pair", value |-> r.value])
       ELSE LET r == get_location(resp)
            IN  /\ raised' = ""
                /\ lat_lon' = r.value
                /\ IF LocationMissing(r.value)
                   THEN /\ net' = Append(net, "geocode_return")
                        /\ IF entry = "GET /forecast7"
                           \* get_weather_data returns None, data["dates"] raises
                           THEN Respond(500, Error("Internal Server Error"))
                           ELSE Respond(404, Error("Location not found"))
                   ELSE /\ net' = net \o << "geocode_return", "provider_call" >>
                        /\ pc' = "provider"
                        /\ UNCHANGED << status, body >>

ProviderDone(resp) ==
    /\ pc = "provider"
    /\ wx_resp' = resp
    /\ net' = Append(net, "provider_return")
    /\ UNCHANGED << model_loaded, entry, place, hours, hours_given, rain_args, geo_resp,
                    lat_lon, raised >>

\* POST /weather from the provider's answer to the response
LiveReturn(resp, pred) ==
    /\ entry = "POST /weather"
    /\ ProviderDone(resp)
    /\ UNCHANGED now
    /\ LET weather == get_live_weather(resp)
           feels_like == weather.temperature + weather.humidity * 5
       IN  IF ~pred.ok
           THEN Respond(500, Error("Internal Server Error"))
           ELSE Respond(200,
                  [kind |-> "weather",
                   place |-> strip(place),
                   coordinates |-> lat_lon,
                   live_weather |->
                      [temperature |-> round1(weather.temperature),
                       humidity |-> weather.humidity,
                       precipitation |-> weather.precipitation,
                       cloud_cover |-> weather.cloud_cover,
                       wind_speed |-> weather.wind_speed,
                       feels_like |-> round1(feels_like)],
                   tomorrow_prediction |->
                      [predicted_avg_temperature |-> pred.v,
                       rain_status |-> predict_rain(weather.precipitation,
                                                    weather.humidity,
                                                    weather.cloud_cover)]])

\* GET /forecast7 from the provider's answer to the response
DailyReturn(resp, clock) ==
    /\ entry = "GET /forecast7"
    /\ ProviderDone(resp)
    /\ now' = clock
    /\ LET r == forecast_7(get_weather_data(resp, clock))
       IN  IF r.exc # ""
           THEN Respond(500, Error("Internal Server Error"))
           ELSE Respond(200, [kind |-> "forecast7", place |-> place,
                              forecast |-> r.value])

\* GET /hourly from the provider's answer to the response
HourlyReturn(resp, clock) ==
    /\ entry = "GET /hourly"
    /\ ProviderDone(resp)
    /\ now' = clock
    /\ Respond(200, [kind |-> "hourly", place |-> place, hours |-> hours,
                     hourly_forecast |-> get_hourly_weather(resp, clock, hours)])

\* the response has been sent (the call has returned); the worker is free again
Finish ==
    /\ pc = "done"
    /\ Begin("none", Str(0, "", 0), NoHours, << 0, 0, 0 >>)
    /\ net' = << >>
    /\ status' = 0
    /\ body' = NoBodyYet
    /\ pc' = "idle"

Next ==
    \/ \E p \in Places : PostWeather(p)
    \/ \E p \in Places : GetForecast7(p)
    \/ \E p \in Places, q \in HourQueries : GetHourly(p, q)
    \/ \E p \in Places : CallApiGetLocation(p)
    \/ \E p \in PrecipVals, h \in HumidityVals, c \in CloudVals : CallPredictRain(p, h, c)
    \/ \E p \in PrecipVals, h \in HumidityVals, c \in CloudVals : CallApiPredictRain(p, h, c)
    \/ \E resp \in GeoResponses : GeocodeReturn(resp)
    \/ \E resp \in Responses(LiveData), pred \in Predictions : LiveReturn(resp, pred)
    \/ \E resp \in Responses(DailyData), clock \in Instants : DailyReturn(resp, clock)
    \/ \E resp \in Responses(HourlyData), clock \in Instants : HourlyReturn(resp, clock)
    \/ Finish

Spec == Init /\ [][Next]_vars

----------------------------------------------------------------------------
(* Vocabulary of the properties *)

Endpoints == {"POST /weather", "GET /forecast7", "GET /hourly"}

Count(log, ev) == Cardinality({ i \in DOMAIN log : log[i] = ev })

\* the string handed to get_location
GeocoderArg == IF entry = "POST /weather" THEN strip(place) ELSE place

\* the operation in progress is one that reaches its get_location call
GeocoderRan ==
    \/ entry \in {"api.get_location", "GET /forecast7", "GET /hourly"}
    \/ entry = "POST /weather" /\ model_loaded /\ ~IsEmptyStr(strip(place))

GeocoderAnswered == Count(net, "geocode_return") = 1

\* the service answered and has nothing for the name
NoResults(resp) ==
    /\ resp.net = "ok"
    /\ resp.data.json
    /\ ~resp.data.has_results \/ resp.data.results = << >>

\* network error, timeout, HTTP error status, non-JSON or malformed body
GeoFailure(resp) ==
    \/ resp.net \in {"connection_error", "timeout"}
    \/ resp.net = "ok" /\ resp.http >= 400
    \/ resp.net = "ok" /\ ~resp.data.json
    \/ /\ resp.net = "ok" /\ resp.data.json /\ resp.data.has_results
       /\ resp.data.results # << >> /\ ~resp.data.results[1].has_lat

\* get_location came back with (None, None)
NotFoundOutcome == raised = "" /\ lat_lon.none

\* network error, timeout, HTTP error status, or a body without the expected keys
ProviderFailed(resp) ==
    \/ resp.net \in {"connection_error", "timeout"}
    \/ resp.net = "ok" /\ resp.http >= 400
    \/ resp.net = "ok" /\ (~resp.data.json \/ ~resp.data.has_keys)

ProviderAnswered == Count(net, "provider_return") = 1

\* the hourly series of the provider's answer, empty when it carries none
SeriesTimes ==
    IF wx_resp.net = "ok" /\ wx_resp.http < 400 /\ wx_resp.data.json
       /\ wx_resp.data.has_keys
    THEN wx_resp.data.time ELSE << >>

SeriesTemps ==
    IF SeriesTimes = << >> THEN << >> ELSE wx_resp.data.temperature_2m

\* every point of `out` is the rendering of an observation at or after the clock reading
AllFromFuture(out) ==
    \A i \in DOMAIN out :
        \E j \in DOMAIN SeriesTimes :
            /\ j \in DOMAIN SeriesTemps
            /\ ~SeriesTemps[j].null
            /\ SeriesTimes[j] >= now
            /\ out[i].time = << (SeriesTimes[j] \div 2) % 24, (SeriesTimes[j] % 2) * 30 >>
            /\ out[i].temperature * 10 - SeriesTemps[j].v \in -5..5

\* the five fixed points 10:00 .. 14:00
IsFixedHourly(out) ==
    /\ Len(out) = 5
    /\ \A i \in 1..5 : out[i].time = << 9 + i, 0 >>
    /\ << out[1].temperature, out[2].temperature, out[3].temperature,
          out[4].temperature, out[5].temperature >> = << 290, 300, 310, 320, 310 >>

HourlyAnswered == entry = "GET /hourly" /\ pc = "done" /\ status = 200

----------------------------------------------------------------------------
(* C1 *)

\* C1 (as stated): whatever the provider call's outcome, for count >= 1 the
\* hourly window has at most `count` entries and every entry comes from an
\* observation whose timestamp is >= now.
C1_WindowAnyOutcome ==
    (HourlyAnswered /\ hours >= 1) =>
        /\ Len(body.hourly_forecast) <= hours
        /\ AllFromFuture(body.hourly_forecast)

\* C1 (amended): for count >= 1 the window is either the five fixed fallback
\* points or has at most `count` entries, each from an observation at or after
\* now; it is the latter whenever the provider's answer is a complete series,
\* and the former whenever the provider call failed.
C1_WindowOrFallback ==
    (HourlyAnswered /\ hours >= 1) =>
        LET out == body.hourly_forecast
            window == Len(out) <= hours /\ AllFromFuture(out)
        IN  /\ window \/ IsFixedHourly(out)
            /\ ProviderFailed(wx_resp) => IsFixedHourly(out)
            /\ (~ProviderFailed(wx_resp)
                /\ \A j \in DOMAIN SeriesTemps : ~SeriesTemps[j].null) => window

\* a window cut at `count`, with a past observation skipped and future ones left over
C1_Witness ==
    /\ HourlyAnswered /\ hours >= 1
    /\ ~ProviderFailed(wx_resp)
    /\ Len(SeriesTemps) = Len(SeriesTimes)
    /\ \A j \in DOMAIN SeriesTemps : ~SeriesTemps[j].null
    /\ Len(body.hourly_forecast) = hours
    /\ \E j \in DOMAIN SeriesTimes : SeriesTimes[j] < now
    /\ Cardinality({ j \in DOMAIN SeriesTimes : SeriesTimes[j] >= now }) > hours

----------------------------------------------------------------------------
(* C2 *)

\* C2: a place that exactly matches a name of the static table gets the
\* table's coordinate with no network call; any other place costs exactly one
\* geocoding round trip.
C2_TableOrOneCall ==
    GeocoderRan =>
        IF InTable(GeocoderArg)
        THEN /\ Count(net, "geocode_call") = 0
             /\ (pc = "done" /\ entry = "api.get_location")
                    => body.value = KERALA_COORDS[GeocoderArg.core]
        ELSE Count(net, "geocode_call") = 1

----------------------------------------------------------------------------
(* C3 *)

\* C3: for a place outside the table, a service answer without a `results`
\* field, or with an empty one, makes the geocoder return (None, None), and no
\* exception escapes it.
C3_NoResultsIsNotFound ==
    (GeocoderRan /\ GeocoderAnswered /\ ~InTable(GeocoderArg) /\ NoResults(geo_resp))
        => NotFoundOutcome

----------------------------------------------------------------------------
(* C4 *)

\* C4: a geocoding failure other than "no results" (network error, timeout,
\* HTTP error status, non-JSON or malformed body) never ends as the outcome of
\* an unresolvable place.
C4_FailureIsNotNotFound ==
    (GeocoderRan /\ GeocoderAnswered /\ GeoFailure(geo_resp)) => ~NotFoundOutcome

----------------------------------------------------------------------------
(* C5 *)

\* C5: the two-level heuristic answers "High chance of rain" exactly when
\* precipitation > 1.0 or (humidity > 80 and cloud cover > 70), and "Low chance
\* of rain" otherwise; above 1.0 of precipitation the other two arguments do
\* not matter, and a value exactly at its threshold does not exceed it.
C5_TwoLevel ==
    (pc = "done" /\ entry = "main.predict_rain") =>
        LET p == rain_args[1]
            h == rain_args[2]
            c == rain_args[3]
            high == body.value = "High chance of rain"
        IN  /\ body.value \in {"High chance of rain", "Low chance of rain"}
            /\ p > 100 => high
            /\ (h > 80 /\ c > 70) => high
            /\ (p <= 100 /\ (h <= 80 \/ c <= 70)) => ~high

\* humidity and cloud cover decide, with precipitation exactly at 1.0
C5_Witness ==
    /\ pc = "done" /\ entry = "main.predict_rain"
    /\ rain_args = << 100, 81, 71 >>
    /\ body.value = "High chance of rain"

----------------------------------------------------------------------------
(* C6 *)

\* C6: the three-level heuristic answers "Rain likely" exactly when
\* precipitation > 0.1; otherwise "Possible rain" exactly when humidity > 75
\* and cloud cover > 60; otherwise "Low rain chance".
C6_ThreeLevel ==
    (pc = "done" /\ entry = "api.predict_rain") =>
        LET p == rain_args[1]
            h == rain_args[2]
            c == rain_args[3]
        IN  /\ body.value \in {"Rain likely", "Possible rain", "Low rain chance"}
            /\ (body.value = "Rain likely") <=> (p > 10)
            /\ (body.value = "Possible rain") <=> (p <= 10 /\ h > 75 /\ c > 60)

\* precipitation exactly at 0.1, so the humidity / cloud test decides
C6_Witness ==
    /\ pc = "done" /\ entry = "api.predict_rain"
    /\ rain_args = << 10, 76, 61 >>
    /\ body.value = "Possible rain"

----------------------------------------------------------------------------
(* C7 *)

\* C7: an endpoint whose geocoding finds nothing for the place answers 404 and
\* calls the weather provider not at all.
C7_Unresolved404 ==
    (entry \in Endpoints /\ pc = "done" /\ GeocoderAnswered /\ NoResults(geo_resp)
     /\ geo_resp.http = 200)
        => status = 404 /\ Count(net, "provider_call") = 0

----------------------------------------------------------------------------
(* C8 *)

\* C8 (as stated): a failed weather-provider call ends the request with 503,
\* without a retry.
C8_ProviderFailure503 ==
    (entry \in Endpoints /\ pc = "done" /\ ProviderAnswered /\ ProviderFailed(wx_resp))
        => status = 503 /\ Count(net, "provider_call") = 1

\* C8 (amended): a failed weather-provider call is not retried and is never
\* answered 503: the handler goes on with fixed fallback values and answers 200
\* (five fixed hourly points; seven days from today at 30.0 / 24.0; the fixed
\* observation 30.0, 10.0, 70, 0.0, 40), POST /weather answering 500 only when
\* the prediction then raises.
C8_ProviderFailureFallback ==
    (entry \in Endpoints /\ pc = "done" /\ ProviderAnswered /\ ProviderFailed(wx_resp))
        => /\ Count(net, "provider_call") = 1
           /\ status # 503
           /\ entry = "GET /hourly" =>
                status = 200 /\ IsFixedHourly(body.hourly_forecast)
           /\ entry = "GET /forecast7" =>
                /\ status = 200
                /\ Len(body.forecast) = 7
                /\ \A i \in 1..7 :
                      body.forecast[i] = [date |-> (now \div 48) + i - 1,
                                          tmax |-> 300, tmin |-> 240]
           /\ entry = "POST /weather" =>
                /\ status \in {200, 500}
                /\ status = 200 =>
                     /\ body.live_weather =
                          [temperature |-> 300, humidity |-> 70, precipitation |-> 0,
                           cloud_cover |-> 40, wind_speed |-> 100, feels_like |-> 335]
                     /\ body.tomorrow_prediction.rain_status = "Low chance of rain"

\* GET /hourly answered 200 although the provider call timed out
C8_Witness ==
    /\ entry = "GET /hourly" /\ pc = "done" /\ hours = 1
    /\ wx_resp.net = "timeout"
    /\ status = 200

----------------------------------------------------------------------------
(* C9 *)

\* C9: a request whose place is empty or blank is answered 400, model loaded
\* or not, at every endpoint, and costs no geocoding or provider call.
C9_BlankPlace400 ==
    (entry \in Endpoints /\ IsEmptyStr(strip(place))) =>
        /\ Count(net, "geocode_call") = 0
        /\ Count(net, "provider_call") = 0
        /\ pc = "done" => status = 400

----------------------------------------------------------------------------
(* C10 *)

\* C10: a request handler issues at most one geocoding call and at most two
\* provider calls, one at a time; a provider call comes only after the
\* geocoding call has returned a coordinate; the response comes only after the
\* last call has returned or failed.
C10_CallDiscipline ==
    entry \in Endpoints =>
        /\ Count(net, "geocode_call") <= 1
        /\ Count(net, "provider_call") <= 2
        /\ \A i \in DOMAIN net :
              /\ net[i] = "geocode_call" =>
                    IF i = Len(net) THEN pc = "geocode" ELSE net[i + 1] = "geocode_return"
              /\ net[i] = "provider_call" =>
                    /\ IF i = Len(net) THEN pc = "provider"
                       ELSE net[i + 1] = "provider_return"
                    /\ \E j \in 1..(i - 1) : net[j] = "geocode_return"
                    /\ ~lat_lon.none
        /\ (status # 0 \/ pc = "done") =>
              (net = << >> \/ net[Len(net)] \in {"geocode_return", "provider_return"})
        /\ pc \in {"geocode", "provider"} => status = 0

\* POST /weather answered after one geocoding and one provider round trip
C10_Witness ==
    /\ entry = "POST /weather" /\ pc = "done" /\ status = 200
    /\ net = << "geocode_call", "geocode_return", "provider_call", "provider_return" >>

----------------------------------------------------------------------------
(* C11 *)

\* positions of the zipped series whose stamp is at or after the clock reading
FutureIdx ==
    { j \in 1..(IF Len(SeriesTimes) < Len(SeriesTemps)
                THEN Len(SeriesTimes) ELSE Len(SeriesTemps)) : SeriesTimes[j] >= now }

\* the i-th of them in series order
NthFuture(i) ==
    CHOOSE j \in FutureIdx : Cardinality({ x \in FutureIdx : x <= j }) = i

\* the provider answered with a series every temperature of which is a number
CompleteSeries ==
    /\ ~ProviderFailed(wx_resp)
    /\ \A j \in DOMAIN SeriesTemps : ~SeriesTemps[j].null

\* C11: on a successful provider response with an ascending hourly series, for
\* count >= 1 the window is exactly the first min(count, k) observations at or
\* after now, in series order, k being their number; fewer than count (none
\* when k = 0) is a normal 200 answer; count is 12 when the query gives none.
C11_ExactWindow ==
    /\ (entry = "GET /hourly" /\ ~hours_given) => hours = 12
    /\ (entry = "GET /hourly" /\ pc = "done" /\ ProviderAnswered
        /\ CompleteSeries /\ hours >= 1) =>
          LET out == body.hourly_forecast
              k == Cardinality(FutureIdx)
          IN  /\ status = 200
              /\ body.hours = hours
              /\ Len(out) = (IF hours < k THEN hours ELSE k)
              /\ \A i \in DOMAIN out :
                    LET j == NthFuture(i)
                    IN  /\ out[i].time = << (SeriesTimes[j] \div 2) % 24,
                                            (SeriesTimes[j] % 2) * 30 >>
                        /\ out[i].temperature * 10 - SeriesTemps[j].v \in -5..5

\* a window cut at count: one observation skipped as past, one exactly at now
\* taken, later ones left over
C11_Witness ==
    /\ HourlyAnswered /\ hours_given /\ hours >= 1
    /\ CompleteSeries
    /\ Len(body.hourly_forecast) = hours
    /\ Cardinality(FutureIdx) > hours
    /\ \E j \in DOMAIN SeriesTimes : SeriesTimes[j] < now
    /\ \E j \in FutureIdx : SeriesTimes[j] = now

====
